---- MODULE Spec2Model ----
(***************************************************************************)
(* Model of the consul service watcher of lfxnxf/emo-frame                 *)
(* (tpc/inf/go-upstream/registry/consul/service.go).                       *)
(*                                                                         *)
(* watchServices starts one watchService goroutine per datacenter, each    *)
(* long-polling consul's health endpoint and sending a cluster list on an  *)
(* unbuffered channel when the resolved clusters changed; watchServices    *)
(* merges the lists last received from every datacenter into one cluster   *)
(* and sends it to the caller when it changed.                             *)
(*                                                                         *)
(* Go values are modelled as follows.                                      *)
(*  - strings are TLA+ strings; Go's byte-wise order on the strings that   *)
(*    are compared (endpoint IDs, tags) is the order of StrOrder;          *)
(*  - slices are sequences.  A []*registry.Cluster that was sent on a      *)
(*    channel is shared between the sender and the receiver: the variables *)
(*    alias and callerAlias say which of the copies the model keeps are    *)
(*    one and the same Go object, and every in-place write (the sort of    *)
(*    checkClusterChanged) is applied to all copies of the object;         *)
(*  - within one goroutine an empty endpoint list is always nil (the       *)
(*    aggregator) or always non-nil (serviceConfig), so nil-ness never     *)
(*    decides reflect.DeepEqual and is not modelled.                       *)
(***************************************************************************)
EXTENDS Integers, Sequences, FiniteSets, TLC

(***************************************************************************)
(* Bounds of the model.                                                    *)
(***************************************************************************)
\* Largest index (meta.LastIndex) a health response carries.
MaxIndex == 2
\* The caller stops receiving after this many merged clusters.
MaxEmit == 3

(***************************************************************************)
(* Strings and their order.                                                *)
(***************************************************************************)
\* The strings the model compares with Go's <, in Go's (byte-wise) order.
StrOrder ==
    << "a", "b", "dc=eu", "dc=us", "i0", "i1", "i2", "i3" >>

Rank(s) == CHOOSE i \in 1..Len(StrOrder) : StrOrder[i] = s

\* s < t on Go strings.
StrLess(s, t) == Rank(s) < Rank(t)

\* "dc=" + svc.Datacenter
DcTag(dc) == IF dc = "us" THEN "dc=us" ELSE "dc=eu"

\* strings.Split(strings.TrimSpace(dc), ",") on the dc arguments of the model.
SplitDc(dc) ==
    CASE dc = "us"    -> << "us" >>
      [] dc = "us,eu" -> << "us", "eu" >>

\* The tag cluster.AddEnvTag appends.
EnvTag == "env=test"

(***************************************************************************)
(* Sequences.                                                              *)
(***************************************************************************)
Range(s) == { s[i] : i \in 1..Len(s) }

Swap(s, i, j) == [s EXCEPT ![i] = s[j], ![j] = s[i]]

RECURSIVE Flatten(_)
Flatten(ss) == IF ss = << >> THEN << >> ELSE Head(ss) \o Flatten(Tail(ss))

\* Number of occurrences of x in s.
Count(s, x) == Cardinality({ i \in 1..Len(s) : s[i] = x })

\* s and t hold the same elements the same number of times.
SameBag(s, t) ==
    /\ Len(s) = Len(t)
    /\ \A x \in Range(s) \cup Range(t) : Count(s, x) = Count(t, x)

(***************************************************************************)
(* Values.                                                                 *)
(***************************************************************************)
\* An api.HealthCheck (Output stands for the fields checkCheckersEqual
\* does not read).
Check(node, checkID, name, status, serviceID, serviceName, tags, output) ==
    [ Node |-> node, CheckID |-> checkID, Name |-> name, Status |-> status,
      ServiceID |-> serviceID, ServiceName |-> serviceName,
      ServiceTags |-> tags, Output |-> output ]

\* An api.CatalogService.
CatalogService(serviceID, serviceAddress, address, port, tags, dc) ==
    [ ServiceID |-> serviceID, ServiceAddress |-> serviceAddress,
      Address |-> address, ServicePort |-> port, ServiceTags |-> tags,
      Datacenter |-> dc ]

\* The result of client.Catalog().Service: svcs, err.
CatalogOk(svcs) == [ err |-> FALSE, svcs |-> svcs ]
CatalogErr == [ err |-> TRUE, svcs |-> << >> ]

\* A registry.Cluster.  EnvTags counts the runs of AddEnvTag on it.
Cluster(name, endpoints) ==
    [ Name |-> name, Endpoints |-> endpoints, EnvTags |-> 0 ]

\* The service watched and the accepted statuses (arguments of watchServices).
Service == "orders"
Status == << "passing" >>

(***************************************************************************)
(* sort.Sort and sort.Strings: for the lengths of the model (below 12) Go  *)
(* runs insertionSort, which is stable.                                    *)
(***************************************************************************)
\* endpointSlice.Less
EndpointLess(e1, e2) == StrLess(e1.ID, e2.ID)

\* for j := i; j > a && less(j, j-1); j-- { swap(j, j-1) }
RECURSIVE InsertEndpoint(_, _)
InsertEndpoint(s, j) ==
    IF j > 1 /\ EndpointLess(s[j], s[j - 1])
    THEN InsertEndpoint(Swap(s, j, j - 1), j - 1)
    ELSE s

RECURSIVE SortFrom(_, _)
SortFrom(s, i) ==
    IF i > Len(s) THEN s ELSE SortFrom(InsertEndpoint(s, i), i + 1)

\* sort.Sort(endpointSlice(s)): the contents of s afterwards.
SortEndpoints(s) == SortFrom(s, 2)

RECURSIVE InsertString(_, _)
InsertString(s, j) ==
    IF j > 1 /\ StrLess(s[j], s[j - 1])
    THEN InsertString(Swap(s, j, j - 1), j - 1)
    ELSE s

RECURSIVE SortStringsFrom(_, _)
SortStringsFrom(s, i) ==
    IF i > Len(s) THEN s ELSE SortStringsFrom(InsertString(s, i), i + 1)

\* sort.Strings(s)
SortStrings(s) == SortStringsFrom(s, 2)

(***************************************************************************)
(* checkClusterChanged.  It sorts the endpoints of the clusters it         *)
(* compares in place, so it returns the contents of both lists afterwards. *)
(***************************************************************************)
\* CheckCluster comparing the sorted IDs only.
CheckClusterByID(e1, e2) ==
    [ i \in 1..Len(e1) |-> SortEndpoints(e1)[i].ID ]
        # [ i \in 1..Len(e2) |-> SortEndpoints(e2)[i].ID ]

\* The inner checkCluster: !reflect.DeepEqual of the sorted endpoint lists.
CheckCluster(e1, e2) == SortEndpoints(e1) # SortEndpoints(e2)

RECURSIVE CheckClusterLoop(_, _, _)
CheckClusterLoop(new, last, i) ==
    IF i > Len(new)
    THEN [ changed |-> FALSE, new |-> new, last |-> last ]
    ELSE LET new2 == [new EXCEPT ![i].Endpoints = SortEndpoints(@)]
             last2 == [last EXCEPT ![i].Endpoints = SortEndpoints(@)]
         IN  IF CheckCluster(new[i].Endpoints, last[i].Endpoints)
             THEN [ changed |-> TRUE, new |-> new2, last |-> last2 ]
             ELSE CheckClusterLoop(new2, last2, i + 1)

\* checkClusterChanged reporting no change for an empty new list.
checkClusterChangedEmptyKept(new, last) ==
    IF Len(new) = 0
    THEN [ changed |-> FALSE, new |-> new, last |-> last ]
    ELSE IF Len(new) # Len(last)
    THEN [ changed |-> TRUE, new |-> new, last |-> last ]
    ELSE CheckClusterLoop(new, last, 1)

checkClusterChanged(new, last) ==
    IF Len(new) # Len(last)
    THEN [ changed |-> TRUE, new |-> new, last |-> last ]
    ELSE CheckClusterLoop(new, last, 1)

(***************************************************************************)
(* checkCheckersEqual.                                                     *)
(***************************************************************************)
\* The condition of the inner loop of checkIn.
CheckMatch(j, h) ==
    /\ j.Node = h.Node
    /\ j.CheckID = h.CheckID
    /\ j.Name = h.Name
    /\ j.Status = h.Status
    /\ j.ServiceID = h.ServiceID
    /\ j.ServiceName = h.ServiceName
    /\ j.ServiceTags = h.ServiceTags

\* checkIn: every element of h1 has a match in h2.
CheckIn(h1, h2) ==
    \A a \in 1..Len(h1) : \E b \in 1..Len(h2) : CheckMatch(h2[b], h1[a])

\* checkCheckersEqual comparing the two slices element by element.
checkCheckersEqualInOrder(old, new) ==
    /\ Len(old) = Len(new)
    /\ \A a \in 1..Len(old) : CheckMatch(old[a], new[a])

\* checkCheckersEqual telling the initial oldCheckers from every passing set.
checkCheckersEqualNonEmpty(old, new) ==
    old # << >> /\ CheckIn(old, new) /\ CheckIn(new, old)

checkCheckersEqual(old, new) == CheckIn(old, new) /\ CheckIn(new, old)

(***************************************************************************)
(* passingServices and AddEnvTag are not in service.go.                    *)
(***************************************************************************)
Contains(s, x) == \E i \in 1..Len(s) : s[i] = x

\* The checks whose status is accepted, in the order received.
passingServices(checks, status) ==
    SelectSeq(checks, LAMBDA c : Contains(status, c.Status))

\* Appends the environment tag to the cluster (to each of its endpoints).
AddEnvTag(cluster) ==
    [ Name |-> cluster.Name,
      Endpoints |-> [ i \in 1..Len(cluster.Endpoints) |->
                        [ cluster.Endpoints[i] EXCEPT
                            !.Tags = Append(@, EnvTag) ] ],
      EnvTags |-> cluster.EnvTags + 1 ]

(***************************************************************************)
(* serviceConfig and servicesConfig.                                       *)
(***************************************************************************)
\* EndpointOf always taking the node's address.
EndpointOfNodeAddress(svc) ==
    [ ID   |-> svc.ServiceID,
      Addr |-> svc.Address,
      Port |-> svc.ServicePort,
      Tags |-> SortStrings(svc.ServiceTags \o << DcTag(svc.Datacenter) >>) ]

\* The endpoint built from one catalog entry (lines 200-215).
EndpointOf(svc) ==
    [ ID   |-> svc.ServiceID,
      Addr |-> IF svc.ServiceAddress = "" THEN svc.Address
               ELSE svc.ServiceAddress,
      Port |-> svc.ServicePort,
      Tags |-> SortStrings(svc.ServiceTags \o << DcTag(svc.Datacenter) >>) ]

\* EndpointsOf taking every catalog entry.
RECURSIVE EndpointsOfAll(_, _)
EndpointsOfAll(svcs, passing) ==
    IF svcs = << >> THEN << >>
    ELSE << EndpointOf(Head(svcs)) >> \o EndpointsOfAll(Tail(svcs), passing)

\* The loop over svcs: the entries whose ServiceID passed, in catalog order.
RECURSIVE EndpointsOf(_, _)
EndpointsOf(svcs, passing) ==
    IF svcs = << >> THEN << >>
    ELSE IF Head(svcs).ServiceID \in passing
         THEN << EndpointOf(Head(svcs)) >> \o EndpointsOf(Tail(svcs), passing)
         ELSE EndpointsOf(Tail(svcs), passing)

\* Whether serviceConfig calls the catalog for this name.
NeedsCatalog(name, passing) == ~(name = "" \/ passing = {})

\* serviceConfig adding the environment tag only to a cluster with endpoints.
serviceConfigTagIfAny(name, passing, r) ==
    IF ~NeedsCatalog(name, passing) THEN Cluster(name, << >>)
    ELSE IF r.err THEN Cluster(name, << >>)
    ELSE IF EndpointsOf(r.svcs, passing) = << >> THEN Cluster(name, << >>)
    ELSE AddEnvTag(Cluster(name, EndpointsOf(r.svcs, passing)))

\* serviceConfig, given the catalog's answer r for the name.
serviceConfig(name, passing, r) ==
    IF ~NeedsCatalog(name, passing) THEN Cluster(name, << >>)
    ELSE IF r.err THEN Cluster(name, << >>)
    ELSE AddEnvTag(Cluster(name, EndpointsOf(r.svcs, passing)))

\* The map m of servicesConfig: service name -> IDs with a passing check.
PassingMap(checks) ==
    [ name \in { c.ServiceName : c \in Range(checks) } |->
        { c.ServiceID : c \in { x \in Range(checks) : x.ServiceName = name } } ]

\* servicesConfig giving up at the first failed lookup.
servicesConfigAbort(checks, order, ans) ==
    LET m == PassingMap(checks)
    IN  IF \E n \in DOMAIN m \cap DOMAIN ans :
              NeedsCatalog(n, m[n]) /\ ans[n].err
        THEN << >>
        ELSE [ i \in 1..Len(order) |->
                 serviceConfig(order[i], m[order[i]], ans[order[i]]) ]

\* servicesConfig after `range m` visited the names of order, in that
\* order, given the catalog's answer for each of them.
servicesConfig(checks, order, ans) ==
    LET m == PassingMap(checks)
    IN  [ i \in 1..Len(order) |->
            serviceConfig(order[i], m[order[i]], ans[order[i]]) ]

(***************************************************************************)
(* The merged cluster of watchServices (lines 90-100).                     *)
(***************************************************************************)
RECURSIVE MergeFrom(_, _, _)
MergeFrom(dcs, lastCfg, i) ==
    IF i > Len(dcs) THEN << >>
    ELSE LET c == lastCfg[dcs[i]]
         IN  (IF Len(c) # 0 /\ Len(c[1].Endpoints) # 0
              THEN c[1].Endpoints ELSE << >>)
             \o MergeFrom(dcs, lastCfg, i + 1)

MergedResult(dcs, lastCfg) ==
    << Cluster(Service, MergeFrom(dcs, lastCfg, 1)) >>

(***************************************************************************)
(* State.                                                                  *)
(***************************************************************************)
VARIABLES
    datacenters,    \* watchServices: the datacenter list
    health,         \* health[d]: the service list the registry of d holds,
                    \*   in the specifications that fix the registry's content
    \* one watchService goroutine per datacenter d:
    wpc,            \* wpc[d]: its position: "poll" (in Health().Service),
                    \*   "backoff" (in time.Sleep), "catalog" (in
                    \*   servicesConfig, before a catalog lookup), "diff"
                    \*   (before checkClusterChanged),
                    \*   "send" (blocked in config <- newConfig)
    waitIndex,      \* q.WaitIndex of the request it issued last
    lastIndex,      \* lastIndex
    meta,           \* meta.LastIndex of the last successful response
    oldCheckers,    \* oldCheckers
    passCheckers,   \* passCheckers
    answers,        \* the catalog's answers to servicesConfig in this cycle
    newConfig,      \* newConfig
    lastConfig,     \* lastConfig
    \* the watchServices goroutine:
    apc,            \* its position: "select" (in reflect.Select), "send"
                    \*   (blocked in config <- result); "none": not running
    cases,          \* cases[d]: cases[i].Chan is not the zero Value
    closed,         \* closed[d]: eventChan[i] was closed
    nClosed,        \* nClosed[d]: how often Select returned !ok for d
    aggLastConfig,  \* lastConfig[i] of watchServices
    lastResult,     \* lastResult
    result,         \* result
    \* the caller:
    received,       \* the list it received last
    nEmit,          \* how many lists it received
    \* which copies are the same Go object:
    alias,          \* alias[d]: lastConfig[d] of the watcher is the list
                    \*   the aggregator holds in aggLastConfig[d]
    callerAlias     \* lastResult is the list the caller holds in received

watcherVars ==
    << wpc, waitIndex, lastIndex, meta, oldCheckers, passCheckers, answers,
       newConfig, lastConfig >>

aggVars ==
    << apc, cases, closed, nClosed, aggLastConfig, lastResult, result >>

callerVars == << received, nEmit >>

envVars == << datacenters, health >>

vars ==
    << envVars, watcherVars, aggVars, callerVars, alias, callerAlias >>

Dcs == Range(datacenters)

\* The state after watchServices(dc) has started its goroutines (running =
\* TRUE), or after watchService alone was started for each datacenter;
\* registry: what the registry of each datacenter holds.
InitWith(dc, running, registry) ==
    /\ datacenters = SplitDc(dc)
    /\ health = registry
    /\ wpc = [ d \in Range(SplitDc(dc)) |-> "poll" ]
    /\ waitIndex = [ d \in Range(SplitDc(dc)) |-> 0 ]
    /\ lastIndex = [ d \in Range(SplitDc(dc)) |-> 0 ]
    /\ meta = [ d \in Range(SplitDc(dc)) |-> 0 ]
    /\ oldCheckers = [ d \in Range(SplitDc(dc)) |-> << >> ]
    /\ passCheckers = [ d \in Range(SplitDc(dc)) |-> << >> ]
    /\ answers = [ d \in Range(SplitDc(dc)) |-> << >> ]
    /\ newConfig = [ d \in Range(SplitDc(dc)) |-> << >> ]
    /\ lastConfig = [ d \in Range(SplitDc(dc)) |-> << >> ]
    /\ apc = IF running THEN "select" ELSE "none"
    /\ cases = [ d \in Range(SplitDc(dc)) |-> TRUE ]
    /\ closed = [ d \in Range(SplitDc(dc)) |-> FALSE ]
    /\ nClosed = [ d \in Range(SplitDc(dc)) |-> 0 ]
    /\ aggLastConfig = [ d \in Range(SplitDc(dc)) |-> << >> ]
    /\ lastResult = << >>
    /\ result = << >>
    /\ received = << >>
    /\ nEmit = 0
    /\ alias = [ d \in Range(SplitDc(dc)) |-> FALSE ]
    /\ callerAlias = FALSE

(***************************************************************************)
(* watchService.                                                           *)
(***************************************************************************)
\* NextCursor advancing only in the cycles that are not suppressed.
NextCursorUnlessSame(last, idx, same) == IF same THEN last ELSE idx

\* Line 132: lastIndex after a successful fetch that returned index idx;
\* same: checkCheckersEqual found the passing set unchanged.
NextCursor(last, idx, same) == idx

\* PollFail starting over from index 0.
PollFailReset(d) ==
    /\ wpc[d] = "poll"
    /\ wpc' = [wpc EXCEPT ![d] = "backoff"]
    /\ lastIndex' = [lastIndex EXCEPT ![d] = 0]
    /\ UNCHANGED << envVars, waitIndex, meta, oldCheckers, passCheckers,
                    answers, newConfig, lastConfig, aggVars, callerVars,
                    alias, callerAlias >>

\* Lines 122-126: the long-poll failed.
PollFail(d) ==
    /\ wpc[d] = "poll"
    /\ wpc' = [wpc EXCEPT ![d] = "backoff"]
    /\ UNCHANGED << envVars, waitIndex, lastIndex, meta, oldCheckers,
                    passCheckers, answers, newConfig, lastConfig, aggVars,
                    callerVars, alias, callerAlias >>

\* Lines 124-125 and 118: the sleep is over, the next request is issued.
Retry(d) ==
    /\ wpc[d] = "backoff"
    /\ wpc' = [wpc EXCEPT ![d] = "poll"]
    /\ waitIndex' = [waitIndex EXCEPT ![d] = lastIndex[d]]
    /\ UNCHANGED << envVars, lastIndex, meta, oldCheckers, passCheckers,
                    answers, newConfig, lastConfig, aggVars, callerVars,
                    alias, callerAlias >>

\* Lines 127-139: the long-poll returned services (each entry: its Checks)
\* from H with index idx from I.
PollOk(d, H, I) ==
    /\ wpc[d] = "poll"
    /\ \E services \in H, idx \in I :
         LET checks == Flatten(services)
             pass == passingServices(checks, Status)
             same == checkCheckersEqual(oldCheckers[d], pass)
             cursor == NextCursor(lastIndex[d], idx, same)
         IN  /\ meta' = [meta EXCEPT ![d] = idx]
             /\ lastIndex' = [lastIndex EXCEPT ![d] = cursor]
             /\ passCheckers' = [passCheckers EXCEPT ![d] = pass]
             /\ IF same
                THEN /\ waitIndex' = [waitIndex EXCEPT ![d] = cursor]
                     /\ UNCHANGED << wpc, oldCheckers >>
                ELSE /\ oldCheckers' = [oldCheckers EXCEPT ![d] = pass]
                     /\ wpc' = [wpc EXCEPT ![d] = "catalog"]
                     /\ UNCHANGED waitIndex
    /\ UNCHANGED << envVars, answers, newConfig, lastConfig, aggVars,
                    callerVars, alias, callerAlias >>

\* The catalog's possible answers to serviceConfig(name, passing): one of
\* K[d, name] when the catalog is asked, no entries when it is not.
AnswersOf(d, name, passing, K) ==
    IF NeedsCatalog(name, passing) THEN K[d, name] ELSE { CatalogOk(<< >>) }

\* Line 140, one iteration of the loop of servicesConfig (lines 165-168):
\* `range m` visits a name it has not visited yet, in an order Go
\* randomises, and serviceConfig waits for the catalog's answer for it, so
\* that the other goroutines run between two lookups.  answers[d] holds
\* the answers of the names visited so far, newConfig[d] their clusters;
\* servicesConfig returns after the last name, and at once for an empty m.
Lookup(d, K) ==
    /\ wpc[d] = "catalog"
    /\ LET m == PassingMap(passCheckers[d])
           seen == DOMAIN answers[d]
           built == IF seen = {} THEN << >> ELSE newConfig[d]
           order == [ i \in 1..Len(built) |-> built[i].Name ]
       IN  IF DOMAIN m = {}
           THEN /\ newConfig' = [newConfig EXCEPT ![d] =
                      servicesConfig(passCheckers[d], << >>, answers[d])]
                /\ wpc' = [wpc EXCEPT ![d] = "diff"]
                /\ UNCHANGED answers
           ELSE \E n \in DOMAIN m \ seen :
                  \E a \in AnswersOf(d, n, m[n], K) :
                    LET ans == [ x \in seen \cup { n } |->
                                   IF x = n THEN a ELSE answers[d][x] ]
                    IN  /\ answers' = [answers EXCEPT ![d] = ans]
                        /\ newConfig' = [newConfig EXCEPT ![d] =
                              servicesConfig(passCheckers[d],
                                             Append(order, n), ans)]
                        /\ wpc' = [wpc EXCEPT ![d] =
                              IF seen \cup { n } = DOMAIN m
                              THEN "diff" ELSE "catalog"]
    /\ UNCHANGED << envVars, waitIndex, lastIndex, meta, oldCheckers,
                    passCheckers, lastConfig, aggVars, callerVars, alias,
                    callerAlias >>

\* Lines 141-146 up to the send: checkClusterChanged sorts newConfig and
\* lastConfig in place; the list lastConfig may be the one the aggregator
\* holds.
Diff(d) ==
    /\ wpc[d] = "diff"
    /\ LET r == checkClusterChanged(newConfig[d], lastConfig[d])
       IN  /\ newConfig' = [newConfig EXCEPT ![d] = r.new]
           /\ aggLastConfig' = IF alias[d]
                               THEN [aggLastConfig EXCEPT ![d] = r.last]
                               ELSE aggLastConfig
           /\ IF r.changed
              THEN /\ lastConfig' = [lastConfig EXCEPT ![d] = r.last]
                   /\ wpc' = [wpc EXCEPT ![d] = "send"]
                   /\ UNCHANGED << waitIndex, alias >>
              ELSE /\ lastConfig' = [lastConfig EXCEPT ![d] = r.new]
                   /\ alias' = [alias EXCEPT ![d] = FALSE]
                   /\ wpc' = [wpc EXCEPT ![d] = "poll"]
                   /\ waitIndex' = [waitIndex EXCEPT ![d] = lastIndex[d]]
    /\ answers' = [answers EXCEPT ![d] = << >>]
    /\ UNCHANGED << envVars, lastIndex, meta, oldCheckers, passCheckers,
                    apc, cases, closed, nClosed, lastResult, result,
                    callerVars, callerAlias >>

\* Lines 142, 146 and 118: the send completed.
Sent(d) ==
    /\ wpc[d] = "send"
    /\ lastConfig' = [lastConfig EXCEPT ![d] = newConfig[d]]
    /\ wpc' = [wpc EXCEPT ![d] = "poll"]
    /\ waitIndex' = [waitIndex EXCEPT ![d] = lastIndex[d]]
    /\ UNCHANGED << lastIndex, meta, oldCheckers, passCheckers, answers,
                    newConfig >>

\* watchService run on its own: the receiver of its channel takes the list.
Consume(d) ==
    /\ apc = "none"
    /\ Sent(d)
    /\ UNCHANGED << envVars, aggVars, callerVars, alias, callerAlias >>

(***************************************************************************)
(* watchServices.                                                          *)
(***************************************************************************)
\* AggRecv receiving also while the send to the caller is pending.
AggRecvWhileSending(d) ==
    /\ apc \in { "select", "send" }
    /\ cases[d]
    /\ Sent(d)
    /\ LET slots == [aggLastConfig EXCEPT ![d] = newConfig[d]]
           r == checkClusterChanged(MergedResult(datacenters, slots),
                                    lastResult)
       IN  /\ aggLastConfig' = slots
           /\ alias' = [alias EXCEPT ![d] = TRUE]
           /\ result' = r.new
           /\ received' = IF callerAlias THEN r.last ELSE received
           /\ IF r.changed
              THEN /\ lastResult' = r.last
                   /\ apc' = "send"
                   /\ UNCHANGED callerAlias
              ELSE /\ lastResult' = r.new
                   /\ apc' = "select"
                   /\ callerAlias' = FALSE
    /\ UNCHANGED << envVars, cases, closed, nClosed, nEmit >>

\* Lines 84 and 89-106 up to the send: Select received the list watcher d
\* was sending.  checkClusterChanged sorts result and lastResult in place;
\* the list lastResult may be the one the caller holds.
AggRecv(d) ==
    /\ apc = "select"
    /\ cases[d]
    /\ Sent(d)
    /\ LET slots == [aggLastConfig EXCEPT ![d] = newConfig[d]]
           r == checkClusterChanged(MergedResult(datacenters, slots),
                                    lastResult)
       IN  /\ aggLastConfig' = slots
           /\ alias' = [alias EXCEPT ![d] = TRUE]
           /\ result' = r.new
           /\ received' = IF callerAlias THEN r.last ELSE received
           /\ IF r.changed
              THEN /\ lastResult' = r.last
                   /\ apc' = "send"
                   /\ UNCHANGED callerAlias
              ELSE /\ lastResult' = r.new
                   /\ apc' = "select"
                   /\ callerAlias' = FALSE
    /\ UNCHANGED << envVars, cases, closed, nClosed, nEmit >>

\* Lines 102 and 106: the caller received result.
CallerRecv ==
    /\ apc = "send"
    /\ nEmit < MaxEmit
    /\ received' = result
    /\ nEmit' = nEmit + 1
    /\ lastResult' = result
    /\ callerAlias' = TRUE
    /\ apc' = "select"
    /\ UNCHANGED << envVars, watcherVars, cases, closed, nClosed,
                    aggLastConfig, result, alias >>

\* AggClosed leaving the closed channel in the cases.
AggClosedKept(d) ==
    /\ apc = "select"
    /\ cases[d]
    /\ closed[d]
    /\ nClosed' = [nClosed EXCEPT ![d] = @ + 1]
    /\ UNCHANGED << envVars, watcherVars, apc, cases, closed, aggLastConfig,
                    lastResult, result, callerVars, alias, callerAlias >>

\* Lines 85-88: Select returned !ok for the closed channel of d.
AggClosed(d) ==
    /\ apc = "select"
    /\ cases[d]
    /\ closed[d]
    /\ cases' = [cases EXCEPT ![d] = FALSE]
    /\ nClosed' = [nClosed EXCEPT ![d] = @ + 1]
    /\ UNCHANGED << envVars, watcherVars, apc, closed, aggLastConfig,
                    lastResult, result, callerVars, alias, callerAlias >>

\* No code of service.go closes eventChan[i]: the watcher of d stops
\* between two cycles and its channel is closed.
CloseChan(d) ==
    /\ wpc[d] = "poll"
    /\ ~closed[d]
    /\ wpc' = [wpc EXCEPT ![d] = "stopped"]
    /\ closed' = [closed EXCEPT ![d] = TRUE]
    /\ UNCHANGED << envVars, waitIndex, lastIndex, meta, oldCheckers,
                    passCheckers, answers, newConfig, lastConfig, apc, cases,
                    nClosed, aggLastConfig, lastResult, result, callerVars,
                    alias, callerAlias >>

\* The registry of eu gains the passing instance i2 after the caller
\* received the first merged cluster.
EuGains(services) ==
    /\ nEmit = 1
    /\ health["eu"] = << >>
    /\ health' = [health EXCEPT !["eu"] = services]
    /\ UNCHANGED << datacenters, watcherVars, aggVars, callerVars, alias,
                    callerAlias >>

(***************************************************************************)
(* What the registry may answer.                                           *)
(***************************************************************************)
\* The service lists of at most two entries with one check each.
ServiceLists(checks) ==
    { << >> } \cup { << << x >> >> : x \in checks }
              \cup { << << x >>, << y >> >> : x \in checks, y \in checks }

\* The sequences of at most two different elements of S.
ShortSeqs(S) ==
    { << >> } \cup { << x >> : x \in S }
              \cup { p \in { << x, y >> : x \in S, y \in S } : p[1] # p[2] }

\* Health checks that differ from CheckA in one field each, a check of a
\* second instance, a check of a second service and a failing check.
CheckA == Check("n1", "c1", "alive", "passing", "i1", "orders",
                << "a", "b" >>, "ok")
CheckOutput == [CheckA EXCEPT !.Output = "slow"]
CheckTags == [CheckA EXCEPT !.ServiceTags = << "b", "a" >>]
CheckNode == [CheckA EXCEPT !.Node = "n2"]
CheckCheckID == [CheckA EXCEPT !.CheckID = "c2"]
CheckName == [CheckA EXCEPT !.Name = "ready"]
CheckB == Check("n2", "c1", "alive", "passing", "i2", "orders",
                << "a", "b" >>, "ok")
CheckPay == Check("n1", "c3", "alive", "passing", "i3", "pay", << >>, "ok")
CheckCritical == [CheckB EXCEPT !.Status = "critical"]

\* Catalog entries of service orders: two of instance i1 on different
\* nodes, and three of instance i2 that differ in port or tags.
SvcA == CatalogService("i1", "10.0.0.1", "10.1.0.1", 8080, << "b", "a" >>, "us")
SvcA2 == CatalogService("i1", "", "10.1.0.2", 8080, << "b", "a" >>, "us")
SvcB == CatalogService("i2", "10.0.0.2", "10.1.0.2", 8080, << >>, "us")
SvcBPort == [SvcB EXCEPT !.ServicePort = 9090]
SvcBTags == [SvcB EXCEPT !.ServiceTags = << "a" >>]
SvcPay == CatalogService("i3", "10.0.0.3", "10.1.0.1", 7070, << >>, "us")

\* One watcher, many health answers, one catalog answer per name.
HealthRich ==
    ServiceLists({ CheckA, CheckOutput, CheckTags, CheckNode, CheckCheckID,
                   CheckName, CheckB, CheckPay, CheckCritical })

CatalogPoor ==
    [ d \in { "us" }, name \in { "orders", "pay" } |->
        IF name = "orders" THEN { CatalogOk(<< SvcA, SvcB >>) }
        ELSE { CatalogOk(<< SvcPay >>) } ]

\* One watcher, few health answers, many catalog answers.
HealthPoor ==
    { << >>, << << CheckA >> >>, << << CheckB >> >>,
      << << CheckA, CheckB >> >>, << << CheckA, CheckB >>, << CheckNode >> >>,
      << << CheckA >>, << CheckPay >> >> }

CatalogRich ==
    [ d \in { "us" }, name \in { "orders", "pay" } |->
        IF name = "orders"
        THEN { CatalogErr } \cup
             { CatalogOk(e) : e \in ShortSeqs({ SvcA, SvcA2, SvcB, SvcBPort,
                                                SvcBTags }) }
        ELSE { CatalogErr, CatalogOk(<< SvcPay >>) } ]

\* Two datacenters: instances i1 and i3 in us, instance i2 in eu.
Check1 == Check("n1", "c1", "alive", "passing", "i1", "orders", << >>, "ok")
Check3 == Check("n3", "c3", "alive", "passing", "i3", "orders", << >>, "ok")
Check2 == Check("n2", "c2", "alive", "passing", "i2", "orders", << >>, "ok")
Svc1 == CatalogService("i1", "10.0.0.1", "10.1.0.1", 8080, << >>, "us")
Svc3 == CatalogService("i3", "10.0.0.3", "10.1.0.3", 8080, << >>, "us")
Svc2 == CatalogService("i2", "10.0.0.2", "10.2.0.2", 8080, << >>, "eu")

HealthSmall(d) ==
    IF d = "us"
    THEN { << >>, << << Check1 >> >>, << << Check3 >> >>,
           << << Check1 >>, << Check3 >> >> }
    ELSE { << >>, << << Check2 >> >> }

CatalogSmall ==
    [ d \in { "us", "eu" }, name \in { "orders" } |->
        IF d = "us"
        THEN { CatalogErr, CatalogOk(<< Svc1, Svc3 >>),
               CatalogOk(<< Svc3, Svc1 >>) }
        ELSE { CatalogErr, CatalogOk(<< Svc2 >>) } ]

(***************************************************************************)
(* Specifications.                                                         *)
(***************************************************************************)
\* watchServices(dc = "us,eu") with its two watchers and its caller.
Init == InitWith("us,eu", TRUE, [ d \in { "us", "eu" } |-> << >> ])

Next ==
    \/ \E d \in { "us", "eu" } :
        \/ PollFail(d)
        \/ Retry(d)
        \/ PollOk(d, HealthSmall(d), { 1 })
        \/ Lookup(d, CatalogSmall)
        \/ Diff(d)
        \/ AggRecv(d)
    \/ CallerRecv

Spec == Init /\ [][Next]_vars

\* watchService(dc = "us") on its own, the registry's health changing freely.
InitWatch == InitWith("us", FALSE, [ d \in { "us" } |-> << >> ])

NextHealth ==
    \E d \in { "us" } :
        \/ PollFail(d)
        \/ Retry(d)
        \/ PollOk(d, HealthRich, 0..MaxIndex)
        \/ Lookup(d, CatalogPoor)
        \/ Diff(d)
        \/ Consume(d)

SpecHealth == InitWatch /\ [][NextHealth]_vars

\* watchService(dc = "us") on its own, the catalog changing freely.
NextCatalog ==
    \E d \in { "us" } :
        \/ PollFail(d)
        \/ Retry(d)
        \/ PollOk(d, HealthPoor, { 1 })
        \/ Lookup(d, CatalogRich)
        \/ Diff(d)
        \/ Consume(d)

SpecCatalog == InitWatch /\ [][NextCatalog]_vars

\* watchServices("us,eu") where a watcher may stop and close its channel.
NextClosed ==
    \/ \E d \in { "us", "eu" } :
        \/ PollFail(d)
        \/ Retry(d)
        \/ PollOk(d, HealthSmall(d), { 1 })
        \/ Lookup(d, CatalogSmall)
        \/ Diff(d)
        \/ AggRecv(d)
        \/ AggClosed(d)
        \/ CloseChan(d)
    \/ CallerRecv

SpecClosed == Init /\ [][NextClosed]_vars

\* The end-to-end scenario: service orders, datacenters "us,eu"; us holds
\* the passing instance i1, eu holds nothing and later gains i2; the
\* catalog lookups succeed.
CatalogE2E ==
    [ d \in { "us", "eu" }, name \in { "orders" } |->
        IF d = "us"
        THEN { CatalogOk(<< Svc1 >>), CatalogOk(<< Svc1, Svc3 >>),
               CatalogOk(<< Svc3, Svc1 >>) }
        ELSE { CatalogOk(<< Svc2 >>) } ]

InitE2E ==
    InitWith("us,eu", TRUE,
             [ d \in { "us", "eu" } |->
                 IF d = "us" THEN << << Check1 >> >> ELSE << >> ])

NextE2E ==
    \/ \E d \in { "us", "eu" } :
        \/ PollFail(d)
        \/ Retry(d)
        \/ PollOk(d, { health[d] }, 0..MaxIndex)
        \/ Lookup(d, CatalogE2E)
        \/ Diff(d)
        \/ AggRecv(d)
    \/ CallerRecv
    \/ EuGains(<< << Check2 >> >>)

SpecE2E == InitE2E /\ [][NextE2E]_vars

\* watchServices("us,eu") where the checks of us span the services orders
\* and pay and the catalog of us lists two nodes for the instance i1.
HealthWide(d) ==
    IF d = "us"
    THEN { << >>, << << CheckA >> >>, << << CheckNode >> >>,
           << << CheckA >>, << CheckPay >> >> }
    ELSE { << >>, << << Check2 >> >> }

CatalogWide ==
    [ d \in { "us", "eu" }, name \in { "orders", "pay" } |->
        IF d = "us" /\ name = "orders"
        THEN { CatalogOk(<< SvcA, SvcA2 >>), CatalogOk(<< SvcA2, SvcA >>) }
        ELSE IF d = "us" THEN { CatalogOk(<< SvcPay >>) }
        ELSE IF name = "orders" THEN { CatalogOk(<< Svc2 >>) }
        ELSE { CatalogOk(<< >>) } ]

NextWide ==
    \/ \E d \in { "us", "eu" } :
        \/ PollFail(d)
        \/ Retry(d)
        \/ PollOk(d, HealthWide(d), { 1 })
        \/ Lookup(d, CatalogWide)
        \/ Diff(d)
        \/ AggRecv(d)
    \/ CallerRecv

SpecWide == Init /\ [][NextWide]_vars

\* The registry's content is fixed from the start and differs from run to
\* run; long-polls and catalog lookups may fail; every goroutine that can
\* take a step eventually takes one, and the caller keeps receiving.
InitEventual ==
    \E r \in { f \in [ { "us", "eu" } ->
                         HealthSmall("us") \cup HealthSmall("eu") ] :
                 \A d \in { "us", "eu" } : f[d] \in HealthSmall(d) } :
        InitWith("us,eu", TRUE, r)

NextEventual ==
    \/ \E d \in { "us", "eu" } :
        \/ PollFail(d)
        \/ Retry(d)
        \/ PollOk(d, { health[d] }, 0..MaxIndex)
        \/ Lookup(d, CatalogSmall)
        \/ Diff(d)
        \/ AggRecv(d)
    \/ CallerRecv

FairEventual ==
    /\ \A d \in { "us", "eu" } :
         /\ WF_vars(Retry(d))
         /\ WF_vars(PollOk(d, { health[d] }, 0..MaxIndex))
         /\ WF_vars(Lookup(d, CatalogSmall))
         /\ WF_vars(Diff(d))
         /\ WF_vars(AggRecv(d))
    /\ WF_vars(CallerRecv)

SpecEventual == InitEventual /\ [][NextEventual]_vars /\ FairEventual

(***************************************************************************)
(* Properties.                                                             *)
(***************************************************************************)
\* The fields checkCheckersEqual is meant to match on.
Key(c) ==
    << c.Node, c.CheckID, c.Name, c.Status, c.ServiceID, c.ServiceName,
       c.ServiceTags >>

\* Two check lists hold the same records, whatever the order.
SetEqual(h1, h2) ==
    { Key(c) : c \in Range(h1) } = { Key(c) : c \in Range(h2) }

\* Two cluster lists are the same up to the order of the endpoints inside
\* each cluster.
SameUpToOrder(new, last) ==
    /\ Len(new) = Len(last)
    /\ \A i \in 1..Len(new) :
         /\ new[i].Name = last[i].Name
         /\ SameBag(new[i].Endpoints, last[i].Endpoints)

\* Two cluster lists differ in the number of clusters or in the endpoints
\* of some cluster (their number, or some ID, Addr, Port or Tags).
EndpointsDiffer(new, last) ==
    \/ Len(new) # Len(last)
    \/ \E i \in 1..Len(new) : ~SameBag(new[i].Endpoints, last[i].Endpoints)

IDs(endpoints) == [ i \in 1..Len(endpoints) |-> endpoints[i].ID ]

ServiceIDs(svcs) == [ i \in 1..Len(svcs) |-> svcs[i].ServiceID ]

\* The watcher of d completes a successful fetch in this step.
Fetched(d) == wpc[d] = "poll" /\ wpc'[d] # "backoff" /\ wpc'[d] # "stopped"

\* The watcher of d leaves checkClusterChanged in this step.
Diffed(d) == wpc[d] = "diff" /\ wpc'[d] # "diff"

\* The aggregator receives the list of d in this step.
Received(d) == apc = "select" /\ wpc[d] = "send" /\ wpc'[d] = "poll"

\* C1 (as claimed): every merged cluster the aggregator sets out to send
\* has, as a sequence, the endpoints of the non-empty lists last received
\* from the datacenters, concatenated in datacenter order.
C1_MergedIsConcatenation ==
    [][ \A d \in Dcs :
          (Received(d) /\ apc' = "send")
          => result'[1].Endpoints = MergeFrom(datacenters, aggLastConfig', 1)
      ]_vars

\* C2: in the end-to-end scenario the caller receives the cluster orders
\* with exactly the endpoint i1 first, then, once eu gained i2, the
\* cluster orders with the endpoints i1, i2, and nothing else.
C2_EndToEnd ==
    LET e1 == [ ID |-> "i1", Addr |-> "10.0.0.1", Port |-> 8080,
                Tags |-> << "dc=us", EnvTag >> ]
        e2 == [ ID |-> "i2", Addr |-> "10.0.0.2", Port |-> 8080,
                Tags |-> << "dc=eu", EnvTag >> ]
    IN  /\ nEmit <= 2
        /\ nEmit = 1 =>
             /\ Len(received) = 1
             /\ received[1].Name = "orders"
             /\ received[1].Endpoints = << e1 >>
        /\ nEmit = 2 =>
             /\ health["eu"] # << >>
             /\ Len(received) = 1
             /\ received[1].Name = "orders"
             /\ received[1].Endpoints = << e1, e2 >>
        /\ (apc = "send" /\ nEmit = 0) => result[1].Endpoints = << e1 >>
        /\ (apc = "send" /\ nEmit = 1) => result[1].Endpoints = << e1, e2 >>
        /\ nEmit = 2 => apc = "select"

\* The caller has received the second merged cluster, after eu changed.
C2_Witness == nEmit = 2 /\ health["eu"] # << >> /\ apc = "select"

\* C3 (as claimed): the cursor of a watcher never decreases.
C3_CursorNeverDecreases ==
    [][ \A d \in Dcs : lastIndex'[d] >= lastIndex[d] ]_vars

\* C3 (amended): the cursor is the index the last successful fetch
\* returned: every successful fetch, suppressed or not, sets it to the
\* index of its response, and no other step changes it.
C3_CursorFollowsRegistry ==
    [][ \A d \in Dcs :
          /\ lastIndex[d] = meta[d]
          /\ (lastIndex'[d] # lastIndex[d] \/ meta'[d] # meta[d])
             => (Fetched(d) /\ lastIndex'[d] = meta'[d])
      ]_vars

\* A fetch that was suppressed (nothing was ever resolved) moved the cursor.
C3_Witness ==
    \E d \in Dcs :
        /\ wpc[d] = "poll"
        /\ lastIndex[d] > 0
        /\ oldCheckers[d] = << >>
        /\ passCheckers[d] = << >>

\* C4: a successful fetch whose passing set holds the same records as
\* oldCheckers (order, repetitions and the other fields ignored) is
\* suppressed: the watcher goes back to polling without a catalog lookup
\* and without sending, oldCheckers and lastConfig are kept.
C4_SuppressedWhenSetEqual ==
    [][ \A d \in Dcs :
          (Fetched(d) /\ SetEqual(passCheckers'[d], oldCheckers[d]))
          => /\ wpc'[d] = "poll"
             /\ oldCheckers'[d] = oldCheckers[d]
             /\ lastConfig'[d] = lastConfig[d]
             /\ newConfig'[d] = newConfig[d]
             /\ answers'[d] = answers[d]
      ]_vars

\* A fetch was suppressed although its passing set is another sequence
\* than oldCheckers (two records in the other order, or another Output).
C4_Witness ==
    \E d \in Dcs :
        /\ wpc[d] = "poll"
        /\ Len(oldCheckers[d]) = 2
        /\ oldCheckers[d][1] # oldCheckers[d][2]
        /\ passCheckers[d] = << oldCheckers[d][2], oldCheckers[d][1] >>

\* C5 (as claimed): when the cluster list built in a cycle is lastConfig up
\* to the order of the endpoints inside each cluster, nothing is sent.
C5_NoEmissionUpToOrder ==
    [][ \A d \in Dcs :
          (Diffed(d) /\ SameUpToOrder(newConfig[d], lastConfig[d]))
          => wpc'[d] # "send"
      ]_vars

\* C6: when the cluster list built in a cycle differs from lastConfig in
\* the number of clusters or in the endpoints of a cluster, the watcher
\* sends it: it blocks in the send with that list.
C6_EmissionWhenDifferent ==
    [][ \A d \in Dcs :
          (Diffed(d) /\ EndpointsDiffer(newConfig[d], lastConfig[d]))
          => /\ wpc'[d] = "send"
             /\ SameUpToOrder(newConfig'[d], newConfig[d])
      ]_vars

\* A list is being sent that has the IDs of lastConfig and differs from it
\* in another field of an endpoint.
C6_Witness ==
    \E d \in Dcs :
        /\ wpc[d] = "send"
        /\ Len(newConfig[d]) = 1
        /\ Len(lastConfig[d]) = 1
        /\ Len(newConfig[d][1].Endpoints) > 0
        /\ IDs(newConfig[d][1].Endpoints) = IDs(lastConfig[d][1].Endpoints)

\* C7: Select returns at most once for a closed channel, whose case stays
\* out of the wait set from then on, and the aggregator still sets out to
\* send when a list received from another datacenter changes the merged
\* endpoints.
C7_ClosedDomain ==
    [][ \A d \in Dcs :
          /\ nClosed'[d] <= 1
          /\ ~cases[d] => ~cases'[d]
          /\ (nClosed'[d] # nClosed[d]) => ~cases'[d]
          /\ \A e \in Dcs :
               ( /\ ~cases[d]
                 /\ Received(e)
                 /\ \/ lastResult = << >>
                    \/ ~SameBag(MergeFrom(datacenters, aggLastConfig', 1),
                                lastResult[1].Endpoints) )
               => /\ apc' = "send"
                  /\ SameBag(result'[1].Endpoints,
                             MergeFrom(datacenters, aggLastConfig', 1))
      ]_vars

\* A channel was closed and taken out of the wait set, and the aggregator
\* then set out to send a merged cluster with endpoints.
C7_Witness ==
    \E d \in Dcs :
        /\ closed[d]
        /\ ~cases[d]
        /\ apc = "send"
        /\ result[1].Endpoints # << >>

\* C8: a failed long-poll changes nothing of the watcher but its position
\* and sends nothing; after the sleep the watcher polls again, with the
\* cursor of the request that failed.
C8_FailureChangesNothing ==
    [][ \A d \in Dcs :
          /\ (wpc[d] = "poll" /\ wpc'[d] = "backoff")
             => /\ lastIndex'[d] = lastIndex[d]
                /\ oldCheckers'[d] = oldCheckers[d]
                /\ lastConfig'[d] = lastConfig[d]
                /\ waitIndex'[d] = waitIndex[d]
          /\ (wpc[d] = "backoff" /\ wpc'[d] # "backoff")
             => /\ wpc'[d] = "poll"
                /\ waitIndex'[d] = waitIndex[d]
                /\ waitIndex'[d] = lastIndex'[d]
                /\ lastIndex'[d] = lastIndex[d]
                /\ oldCheckers'[d] = oldCheckers[d]
                /\ lastConfig'[d] = lastConfig[d]
          /\ wpc[d] = "poll" => waitIndex[d] = lastIndex[d]
      ]_vars

\* A long-poll failed after the cursor had advanced and clusters had been
\* resolved.
C8_Witness ==
    \E d \in Dcs :
        /\ wpc[d] = "backoff"
        /\ lastIndex[d] > 0
        /\ lastConfig[d] # << >>

\* C9: servicesConfig returns one cluster for every service name of the
\* passing set; a name whose lookup failed has no endpoints, and every
\* other name has the endpoints of its own catalog entries that pass.
C9_CatalogFailureIsolated ==
    \A d \in Dcs :
        wpc[d] = "diff" =>
          LET m == PassingMap(passCheckers[d])
              c == newConfig[d]
          IN  /\ Len(c) = Cardinality(DOMAIN m)
              /\ { c[i].Name : i \in 1..Len(c) } = DOMAIN m
              /\ \A i \in 1..Len(c) :
                   IF answers[d][c[i].Name].err
                   THEN c[i].Endpoints = << >>
                   ELSE IDs(c[i].Endpoints) =
                          SelectSeq(ServiceIDs(answers[d][c[i].Name].svcs),
                                    LAMBDA id : id \in m[c[i].Name])

\* The lookup of one name failed and another name has endpoints.
C9_Witness ==
    \E d \in Dcs :
        /\ wpc[d] = "diff"
        /\ Len(newConfig[d]) = 2
        /\ \E i, j \in 1..2 :
             /\ answers[d][newConfig[d][i].Name].err
             /\ newConfig[d][j].Endpoints # << >>

\* C10 (as claimed): a list that was sent is written by its receiver only:
\* the list the aggregator holds for a datacenter changes only when it
\* receives from that datacenter, the list the caller holds only when the
\* caller receives.
C10_NoWriteAfterSend ==
    [][ /\ \A d \in Dcs :
             aggLastConfig'[d] # aggLastConfig[d] => Received(d)
        /\ received' # received => (apc = "send" /\ apc' = "select")
      ]_vars

\* The IDs of the endpoints of a cluster list.
EndpointIDs(clusters) ==
    UNION { { clusters[i].Endpoints[j].ID :
                j \in 1..Len(clusters[i].Endpoints) } :
            i \in 1..Len(clusters) }

\* The IDs of the instances of the registry of d with an accepted check.
PassingIDs(d) ==
    { c.ServiceID : c \in Range(passingServices(Flatten(health[d]), Status)) }

\* No registry call fails in this step: no long-poll and no catalog lookup.
NoRegistryFailure ==
    \A d \in { "us", "eu" } :
        /\ ~(wpc[d] = "poll" /\ wpc'[d] = "backoff")
        /\ ~(wpc[d] = "catalog"
             /\ \E n \in DOMAIN answers'[d] \ DOMAIN answers[d] :
                  answers'[d][n].err)

\* C11 (as claimed): with a registry content that no longer changes, once
\* the registry calls stop failing, the list last sent by the watcher of a
\* datacenter eventually holds, for good, exactly the endpoints of the
\* passing instances of that datacenter.
C11_EventuallyConsistent ==
    (<>[][NoRegistryFailure]_vars)
    => \A d \in { "us", "eu" } :
         <>[](EndpointIDs(aggLastConfig[d]) = PassingIDs(d))

\* The endpoints of a cluster list, as a set.
EndpointSet(clusters) ==
    UNION { Range(clusters[i].Endpoints) : i \in 1..Len(clusters) }

\* C12 (as claimed): a merged cluster the caller receives differs in its
\* set of endpoints from the one it received before, and whenever the
\* aggregator receives a list after which the merged endpoints differ, as
\* a set, from those of the cluster sent last, it sets out to send the
\* merged cluster.
C12_EmitsOnlyOnChange ==
    [][ /\ (apc = "send" /\ apc' = "select" /\ nEmit >= 1)
           => EndpointSet(result) # EndpointSet(received)
        /\ \A d \in Dcs :
             ( /\ Received(d)
               /\ \/ nEmit = 0
                  \/ Range(MergeFrom(datacenters, aggLastConfig', 1))
                       # EndpointSet(received) )
             => /\ apc' = "send"
                /\ EndpointSet(result')
                     = Range(MergeFrom(datacenters, aggLastConfig', 1))
      ]_vars

\* C17 (as claimed): after the aggregator received a list, the merged
\* cluster holds the endpoints of every cluster of every list it stores.
C17_MergedHoldsEveryCluster ==
    [][ \A d \in Dcs :
          Received(d)
          => \A e \in Dcs :
               EndpointSet(aggLastConfig'[e]) \subseteq EndpointSet(result')
      ]_vars

\* The IDs of the passing set of d that belong to the service name.
PassingOf(d, name) ==
    { x.ServiceID : x \in { c \in Range(passCheckers[d]) :
                              c.ServiceName = name } }

\* The catalog was asked for the name of cluster c in this cycle of d,
\* answered without error, and none of its entries has a passing ServiceID.
NoMatch(d, c) ==
    /\ NeedsCatalog(c.Name, PassingOf(d, c.Name))
    /\ ~answers[d][c.Name].err
    /\ \A k \in 1..Len(answers[d][c.Name].svcs) :
         answers[d][c.Name].svcs[k].ServiceID \notin PassingOf(d, c.Name)

\* C13: a cluster whose catalog lookup succeeded without an entry of a
\* passing ServiceID is returned with no endpoints and with the
\* environment tag step applied exactly once; the cycle goes on.
C13_EmptyClusterTagged ==
    \A d \in Dcs :
        wpc[d] = "diff" =>
          \A i \in 1..Len(newConfig[d]) :
              NoMatch(d, newConfig[d][i])
              => /\ newConfig[d][i].Endpoints = << >>
                 /\ newConfig[d][i].EnvTags = 1

\* The catalog answered with entries, none of which passes.
C13_Witness ==
    \E d \in Dcs :
        /\ wpc[d] = "diff"
        /\ \E i \in 1..Len(newConfig[d]) :
             /\ NoMatch(d, newConfig[d][i])
             /\ answers[d][newConfig[d][i].Name].svcs # << >>

\* C15 (as claimed): every cluster for which the catalog was asked has had
\* the environment tag step applied exactly once, whether the lookup
\* succeeded or failed.
C15_TaggedOnceWhenAttempted ==
    \A d \in Dcs :
        wpc[d] = "diff" =>
          \A i \in 1..Len(newConfig[d]) :
              NeedsCatalog(newConfig[d][i].Name,
                           PassingOf(d, newConfig[d][i].Name))
              => newConfig[d][i].EnvTags = 1

\* C18: every endpoint of a cluster a watcher built, and sends, has the
\* ServiceID of a record of the cycle's passing set with the cluster's
\* service name; a catalog entry of another ServiceID yields no endpoint.
C18_EndpointsArePassing ==
    \A d \in Dcs :
        /\ wpc[d] \in { "diff", "send" } =>
             \A i \in 1..Len(newConfig[d]) :
                 Range(IDs(newConfig[d][i].Endpoints))
                     \subseteq PassingOf(d, newConfig[d][i].Name)
        /\ wpc[d] = "diff" =>
             \A i \in 1..Len(newConfig[d]) :
                 Len(newConfig[d][i].Endpoints) =
                     Cardinality({ k \in 1..Len(answers[d][newConfig[d][i].Name].svcs) :
                                     answers[d][newConfig[d][i].Name].svcs[k].ServiceID
                                         \in PassingOf(d, newConfig[d][i].Name) })

\* A list that is about to be sent was built from a catalog answer with a
\* passing entry and an entry that does not pass.
C18_Witness ==
    \E d \in Dcs :
        /\ wpc[d] = "diff"
        /\ checkClusterChanged(newConfig[d], lastConfig[d]).changed
        /\ \E i \in 1..Len(newConfig[d]) :
             /\ newConfig[d][i].Endpoints # << >>
             /\ Len(answers[d][newConfig[d][i].Name].svcs)
                  > Len(newConfig[d][i].Endpoints)

\* Two cluster lists hold the same clusters, each service name once with
\* the same endpoints, whatever the order of the clusters.
SameGrouping(new, last) ==
    /\ Len(new) = Len(last)
    /\ \A i, j \in 1..Len(new) : i # j => new[i].Name # new[j].Name
    /\ \A i \in 1..Len(new) : \E j \in 1..Len(last) :
         /\ new[i].Name = last[j].Name
         /\ new[i].Endpoints = last[j].Endpoints

\* C16 (as claimed): when a cycle that is not suppressed resolves every
\* service name of several to the endpoints lastConfig has for it, nothing
\* is sent.
C16_ClusterOrderStable ==
    [][ \A d \in Dcs :
          ( /\ Diffed(d)
            /\ Len(newConfig[d]) >= 2
            /\ SameGrouping(newConfig[d], lastConfig[d]) )
          => wpc'[d] # "send"
      ]_vars

\* The watcher of d completes its send in this step.
SendDone(d) == wpc[d] = "send" /\ wpc'[d] # "send"

\* C14: while the caller does not receive, the aggregator stays in its
\* send with the same merged cluster and takes no list from a watcher, and
\* a watcher that is sending stays in its send with the same list and
\* issues no request; a list is handed over only to a waiting receiver and
\* arrives as it was sent: the merged cluster at the caller first, then
\* the watchers' lists at the aggregator.
C14_Backpressure ==
    [][ /\ (apc = "send" /\ nEmit' = nEmit)
           => /\ apc' = "send"
              /\ result' = result
              /\ lastResult' = lastResult
              /\ \A d \in Dcs : ~SendDone(d)
        /\ (apc = "send" /\ apc' # "send")
           => /\ nEmit' = nEmit + 1
              /\ received' = result
        /\ \A d \in Dcs :
             /\ (wpc[d] = "send" /\ ~SendDone(d))
                => /\ newConfig'[d] = newConfig[d]
                   /\ lastConfig'[d] = lastConfig[d]
                   /\ waitIndex'[d] = waitIndex[d]
                   /\ lastIndex'[d] = lastIndex[d]
                   /\ meta'[d] = meta[d]
             /\ SendDone(d)
                => /\ apc = "select"
                   /\ aggLastConfig'[d] = newConfig[d]
      ]_vars

\* The caller has stopped receiving: the aggregator and every watcher are
\* blocked in their sends.
C14_Witness ==
    /\ nEmit = MaxEmit
    /\ apc = "send"
    /\ \A d \in Dcs : wpc[d] = "send"

\* The endpoint e was built from a catalog entry of datacenter d.
OfDomain(e, d) == Contains(e.Tags, DcTag(d))

\* C19: when the passing set of a watcher becomes empty, the cycle is not
\* suppressed, asks the catalog nothing, builds the empty list and sends
\* it; the aggregator stores it, a merged cluster it sets out to send
\* while it stores the empty list has no endpoint of that datacenter, and
\* it does set out to send if the last merged cluster had one.
C19_EmptyPassingSet ==
    [][ \A d \in Dcs :
          /\ (Fetched(d) /\ oldCheckers[d] # << >> /\ passCheckers'[d] = << >>)
             => wpc'[d] = "catalog"
          /\ (wpc[d] = "catalog" /\ wpc'[d] = "diff" /\ passCheckers[d] = << >>)
             => /\ DOMAIN answers'[d] = {}
                /\ newConfig'[d] = << >>
          /\ (Diffed(d) /\ passCheckers[d] = << >>)
             => /\ wpc'[d] = "send"
                /\ newConfig'[d] = << >>
          /\ (SendDone(d) /\ newConfig[d] = << >>)
             => /\ aggLastConfig'[d] = << >>
                /\ (\E e \in EndpointSet(lastResult) : OfDomain(e, d))
                   => apc' = "send"
          /\ (apc = "select" /\ apc' = "send" /\ aggLastConfig'[d] = << >>)
             => \A e \in EndpointSet(result') : ~OfDomain(e, d)
      ]_vars

\* The aggregator received the empty list of a datacenter whose endpoints
\* were in the last merged cluster, and is sending a merged cluster.
C19_Witness ==
    \E d \in Dcs :
        /\ apc = "send"
        /\ aggLastConfig[d] = << >>
        /\ oldCheckers[d] = << >>
        /\ \E e \in EndpointSet(lastResult) : OfDomain(e, d)

\* C20: a watcher whose registry holds no passing instance from the start
\* never leaves the long-poll loop: it asks the catalog nothing and sends
\* nothing; while this is so for every datacenter, the aggregator has
\* received nothing and the caller has received nothing.
C20_NothingBeforePassing ==
    /\ \A d \in Dcs :
         health[d] = << >>
         => /\ wpc[d] \in { "poll", "backoff" }
            /\ oldCheckers[d] = << >>
            /\ answers[d] = << >>
            /\ newConfig[d] = << >>
            /\ lastConfig[d] = << >>
            /\ aggLastConfig[d] = << >>
    /\ (\A d \in Dcs : health[d] = << >>)
       => /\ apc = "select"
          /\ lastResult = << >>
          /\ nEmit = 0

\* Every watcher has fetched an empty passing set successfully.
C20_Witness ==
    \A d \in Dcs :
        /\ health[d] = << >>
        /\ lastIndex[d] > 0
        /\ wpc[d] = "poll"

====
